---- MODULE Spec2Model ----
(***************************************************************************)
(* Content acquisition of the slide generator: ContentGenerator of         *)
(* app/services/content_generator.py with the SlideContent and Citation    *)
(* schemas it constructs.  One behaviour of Spec is one generate_slides    *)
(* call: the code up to the awaited POST, the endpoint's answer, and the   *)
(* code after the await.  One behaviour of SpecSynth is one call of        *)
(* _generate_fallback_content.                                             *)
(*                                                                         *)
(* Python strings are TLA+ strings (Len, \o and SubSeq act on them         *)
(* character by character).  Optional[T] is a sequence of length at most   *)
(* one: None is <<>> and a present value v is <<v>>.                       *)
(***************************************************************************)
EXTENDS Integers, Sequences, FiniteSets, TLC

VARIABLES
    api_key,            \* ContentGenerator.api_key (settings.openai_api_key)
    topic,              \* argument of generate_slides
    num_slides,         \* argument of generate_slides
    include_citations,  \* argument of generate_slides
    pc,                 \* "start", "awaiting" (suspended in client.post), "returned", "raised"
    error,              \* the exception that left generate_slides, "" when none
    slides,             \* returned slide list
    citations,          \* returned Optional[List[Citation]]
    response,           \* what client.post produced, as the code sees it
    reply,              \* how the endpoint composed the text of the response
    path,               \* the branch of the code that produced the outcome
    post_calls,         \* number of requests issued to the endpoint
    fallback_calls,     \* number of invocations of _generate_fallback_content
    kwargs,             \* keyword arguments of a model constructor under test
    theme,              \* PresentationGenerator.theme (GenerateRequest.theme)
    rgb,                \* the triple _hex_to_rgb returned, <<>> when none
    custom_content,     \* GenerateRequest.custom_content
    aspect_ratio,       \* GenerateRequest.aspect_ratio
    prs,                \* PresentationGenerator.prs
    document,           \* what create_presentation returned
    files,              \* the files written by save_presentation and the storage
    hpc,                \* position of the caller of the generators
    requests,           \* the requests in flight, each with its own frame
    storage_backends,   \* StorageFactory._storage_backends: name -> class
    default_backend,    \* StorageFactory._default_backend
    storage_calls       \* the calls made on one FileStorage, oldest first

\* the state of one generate_slides call
gvars == <<api_key, topic, num_slides, include_citations, pc, error, slides,
           citations, response, reply, path, post_calls, fallback_calls>>

\* the state of the schemas, the renderer and the request handler
rvars == <<kwargs, theme, rgb, custom_content, aspect_ratio, prs, document,
           files, hpc, requests>>

\* the state of the storage factory and of one storage
svars == <<storage_backends, default_backend, storage_calls>>

vars == <<api_key, topic, num_slides, include_citations, pc, error, slides,
          citations, response, reply, path, post_calls, fallback_calls,
          kwargs, theme, rgb, custom_content, aspect_ratio, prs, document,
          files, hpc, requests, storage_backends, default_backend, storage_calls>>

(***************************************************************************)
(* Program constants.                                                      *)
(***************************************************************************)
min_slides == 1
max_slides == 20
TitleMinLength == 1
TitleMaxLength == 200
TopicMinLength == 3
TopicMaxLength == 500
HTTP_OK == 200

(***************************************************************************)
(* Bounds of the model.                                                    *)
(***************************************************************************)
MaxPayloadSlides == 2       \* slide entries in a payload of the endpoint
MaxPayloadCitations == 1    \* citation entries in a payload of the endpoint
MaxBullets == 6             \* bullet points given to a SlideContent
MaxRenderSlides == 3        \* slides given to create_presentation
MaxCustomSlides == 2        \* slides of a request's custom_content
NumRequests == 2            \* requests handled concurrently
MaxFactoryCalls == 3         \* calls made on the StorageFactory
MaxStorageCalls == 3        \* save and delete calls made on one FileStorage

(***************************************************************************)
(* Strings.                                                                *)
(***************************************************************************)
Char(s, i) == SubSeq(s, i, i)

RECURSIVE Repeat(_, _)
Repeat(c, n) ==
    IF n = 0 THEN ""
    ELSE IF n % 2 = 0 THEN LET h == Repeat(c, n \div 2) IN h \o h
    ELSE c \o Repeat(c, n - 1)

Whitespace == {" ", "\t", "\n", "\r"}

RECURSIVE lstrip_from(_, _)
lstrip_from(s, i) ==
    IF i > Len(s) THEN i
    ELSE IF Char(s, i) \in Whitespace THEN lstrip_from(s, i + 1)
    ELSE i

RECURSIVE rstrip_from(_, _)
rstrip_from(s, i) ==
    IF i < 1 THEN i
    ELSE IF Char(s, i) \in Whitespace THEN rstrip_from(s, i - 1)
    ELSE i

\* str.strip(): drop leading and trailing whitespace
strip(s) ==
    LET lo == lstrip_from(s, 1)
    IN  IF lo > Len(s) THEN "" ELSE SubSeq(s, lo, rstrip_from(s, Len(s)))

RECURSIVE find_from(_, _, _)
find_from(s, c, i) ==
    IF i > Len(s) THEN -1
    ELSE IF Char(s, i) = c THEN i - 1
    ELSE find_from(s, c, i + 1)

\* str.find(c): 0-based index of the first occurrence, -1 when absent
find(s, c) == find_from(s, c, 1)

RECURSIVE rfind_from(_, _, _)
rfind_from(s, c, i) ==
    IF i < 1 THEN -1
    ELSE IF Char(s, i) = c THEN i - 1
    ELSE rfind_from(s, c, i - 1)

\* str.rfind(c): 0-based index of the last occurrence, -1 when absent
rfind(s, c) == rfind_from(s, c, Len(s))

\* s[a:b] for 0 <= a, 0 <= b
Slice(s, a, b) == SubSeq(s, a + 1, IF b < Len(s) THEN b ELSE Len(s))

None == <<>>
Some(v) == <<v>>

(***************************************************************************)
(* Schemas: SlideLayout, SlideContent, Citation.                           *)
(***************************************************************************)
TITLE == "title"
BULLET_POINTS == "bullet_points"
TWO_COLUMN == "two_column"
CONTENT_WITH_IMAGE == "content_with_image"
SlideLayout == {TITLE, BULLET_POINTS, TWO_COLUMN, CONTENT_WITH_IMAGE}

\* keyword arguments of SlideContent(...) with the defaults of the fields
SlideFields(layout, title, content, bullet_points, left_column, right_column, image_description) ==
    [layout |-> layout, title |-> title, content |-> content,
     bullet_points |-> bullet_points, left_column |-> left_column,
     right_column |-> right_column, image_url |-> None,
     image_description |-> image_description, notes |-> None]

\* the validator of bullet_points for a supplied value v (None or a
\* list): TRUE when it returns, FALSE when it raises
validate_bullet_points(v, layout) ==
    IF layout = BULLET_POINTS
    THEN ~(v = None \/ Len(v[1]) = 0 \/ Len(v[1]) < 3 \/ Len(v[1]) > 5)
    ELSE TRUE

\* SlideContent(**d): TRUE when the model is constructed, FALSE when
\* construction raises a validation error.  The bullet_points validator
\* runs on a supplied list; a field left at its default is not validated.
SlideContent(d) ==
    /\ d.layout \in SlideLayout
    /\ Len(d.title) >= TitleMinLength
    /\ Len(d.title) <= TitleMaxLength
    /\ d.bullet_points # None => validate_bullet_points(d.bullet_points, d.layout)

\* Citation(**c): source is required
Citation(c) == c.source # None

(***************************************************************************)
(* Keyword arguments.  A constructor argument is left out (the field takes *)
(* its default, which is not validated), given as null, or given a value.  *)
(***************************************************************************)
Omitted == [given |-> FALSE, value |-> None]
Null == [given |-> TRUE, value |-> None]
Given(v) == [given |-> TRUE, value |-> Some(v)]

\* the value of a field after construction
field(arg, default) == IF arg.given THEN arg.value ELSE default

\* a required argument is given and not null
required(arg) == arg.given /\ arg.value # None

\* the fields of SlideContent(**kw) once layout and title are present
slide_fields(kw) ==
    SlideFields(kw.layout.value[1], kw.title.value[1], field(kw.content, None),
                field(kw.bullet_points, None), field(kw.left_column, None),
                field(kw.right_column, None), field(kw.image_description, None))

\* SlideContent(**kw) for keyword arguments kw: TRUE when the model is
\* constructed.  The validator runs on a given bullet_points, null
\* included, and not on the default of an omitted one.
SlideContent_kw(kw) ==
    /\ required(kw.layout)
    /\ required(kw.title)
    /\ SlideContent(slide_fields(kw))
    /\ kw.bullet_points.given
          => validate_bullet_points(kw.bullet_points.value, kw.layout.value[1])

(***************************************************************************)
(* GenerateRequest.aspect_ratio.                                           *)
(***************************************************************************)
\* a validator that accepts every string
validate_aspect_ratio_any_string(v) == v # None

\* validate_aspect_ratio(v) for v None or a string: TRUE when it returns v,
\* FALSE when it raises
validate_aspect_ratio(v) == v \in {Some("16:9"), Some("4:3")}

\* GenerateRequest(**kw), the other arguments being valid: TRUE when the
\* model is constructed.  The validator runs on a given aspect_ratio,
\* null included, and not on the default of an omitted one.
GenerateRequest_kw(kw) ==
    kw.aspect_ratio.given => validate_aspect_ratio(kw.aspect_ratio.value)

(***************************************************************************)
(* ThemeConfig.                                                            *)
(***************************************************************************)
DefaultPrimaryColor == "#1F4788"
DefaultSecondaryColor == "#FFFFFF"
DefaultFontName == "Calibri"
DefaultFontSizeTitle == 44
DefaultFontSizeBody == 18
FontSizeTitleMin == 20
FontSizeTitleMax == 72
FontSizeBodyMin == 10
FontSizeBodyMax == 36

HexChars == {"0", "1", "2", "3", "4", "5", "6", "7", "8", "9",
             "a", "b", "c", "d", "e", "f", "A", "B", "C", "D", "E", "F"}

\* validate_hex_color(v) for v None or a string: TRUE when it returns v,
\* FALSE when it raises
validate_hex_color(v) ==
    /\ ~(v # None /\ v[1] # "" /\ Char(v[1], 1) # "#")
    /\ ~(v # None /\ v[1] # "" /\ Len(v[1]) # 7)

\* ge / le of an Optional[int] field: null is accepted
in_bounds(v, lo, hi) == v = None \/ (lo <= v[1] /\ v[1] <= hi)

\* ThemeConfig(**kw): TRUE when the model is constructed
ThemeConfig(kw) ==
    /\ kw.primary_color.given => validate_hex_color(kw.primary_color.value)
    /\ kw.secondary_color.given => validate_hex_color(kw.secondary_color.value)
    /\ kw.font_size_title.given
          => in_bounds(kw.font_size_title.value, FontSizeTitleMin, FontSizeTitleMax)
    /\ kw.font_size_body.given
          => in_bounds(kw.font_size_body.value, FontSizeBodyMin, FontSizeBodyMax)

\* the fields of the constructed ThemeConfig
theme_fields(kw) ==
    [primary_color |-> field(kw.primary_color, Some(DefaultPrimaryColor)),
     secondary_color |-> field(kw.secondary_color, Some(DefaultSecondaryColor)),
     font_name |-> field(kw.font_name, Some(DefaultFontName)),
     font_size_title |-> field(kw.font_size_title, Some(DefaultFontSizeTitle)),
     font_size_body |-> field(kw.font_size_body, Some(DefaultFontSizeBody))]

\* ThemeConfig()
DefaultTheme ==
    [primary_color |-> Some(DefaultPrimaryColor),
     secondary_color |-> Some(DefaultSecondaryColor),
     font_name |-> Some(DefaultFontName),
     font_size_title |-> Some(DefaultFontSizeTitle),
     font_size_body |-> Some(DefaultFontSizeBody)]

(***************************************************************************)
(* _hex_to_rgb.                                                            *)
(***************************************************************************)
\* the value of one hexadecimal digit
hex_value(c) ==
    IF c \in {"a", "A"} THEN 10 ELSE IF c \in {"b", "B"} THEN 11
    ELSE IF c \in {"c", "C"} THEN 12 ELSE IF c \in {"d", "D"} THEN 13
    ELSE IF c \in {"e", "E"} THEN 14 ELSE IF c \in {"f", "F"} THEN 15
    ELSE CHOOSE k \in 0..9 : ToString(k) = c

\* the digits of int(s, 16) after whitespace and sign are taken off, for
\* at most two characters ("0x" is a prefix without digits)
int16_digits(t) ==
    IF Len(t) = 1 /\ Char(t, 1) \in HexChars
    THEN [ok |-> TRUE, value |-> hex_value(Char(t, 1))]
    ELSE IF Len(t) = 2 /\ Char(t, 1) \in HexChars /\ Char(t, 2) \in HexChars
    THEN [ok |-> TRUE, value |-> 16 * hex_value(Char(t, 1)) + hex_value(Char(t, 2))]
    ELSE [ok |-> FALSE, value |-> 0]

\* int(s, 16) of a slice s of at most two characters: surrounding
\* whitespace is dropped and one sign is allowed; ok is FALSE when it
\* raises ValueError
int16_stripped(t) ==
    IF Len(t) = 2 /\ Char(t, 1) = "-"
    THEN [ok |-> int16_digits(SubSeq(t, 2, 2)).ok,
          value |-> 0 - int16_digits(SubSeq(t, 2, 2)).value]
    ELSE IF Len(t) = 2 /\ Char(t, 1) = "+"
    THEN int16_digits(SubSeq(t, 2, 2))
    ELSE int16_digits(t)

int16(s) == int16_stripped(strip(s))

\* str.lstrip('#'): every leading '#' is dropped
RECURSIVE lstrip_hash(_)
lstrip_hash(s) ==
    IF Len(s) >= 1 /\ Char(s, 1) = "#" THEN lstrip_hash(SubSeq(s, 2, Len(s))) ELSE s

\* RGBColor(r, g, b) of the rendering library: each component must be an
\* int of 0..255
RGBColor(r, g, b) ==
    IF r.ok /\ g.ok /\ b.ok /\ {r.value, g.value, b.value} \subseteq 0..255
    THEN [raised |-> FALSE, rgb |-> <<r.value, g.value, b.value>>]
    ELSE [raised |-> TRUE, rgb |-> <<>>]

\* the conversion without the lstrip: the slices start at the '#'
hex_to_rgb_keeps_hash(hex_color) ==
    IF hex_color = None THEN [raised |-> TRUE, rgb |-> <<>>]
    ELSE RGBColor(int16(Slice(hex_color[1], 0, 2)), int16(Slice(hex_color[1], 2, 4)),
                  int16(Slice(hex_color[1], 4, 6)))

\* _hex_to_rgb(hex_color) for hex_color None or a string: raised when it
\* raises (AttributeError on None, ValueError of int or of RGBColor)
hex_to_rgb(hex_color) ==
    IF hex_color = None THEN [raised |-> TRUE, rgb |-> <<>>]
    ELSE RGBColor(int16(Slice(lstrip_hash(hex_color[1]), 0, 2)),
                  int16(Slice(lstrip_hash(hex_color[1]), 2, 4)),
                  int16(Slice(lstrip_hash(hex_color[1]), 4, 6)))

(***************************************************************************)
(* _generate_fallback_content.                                             *)
(***************************************************************************)
\* the sequence started one step late
layouts_rotated == <<TWO_COLUMN, CONTENT_WITH_IMAGE, BULLET_POINTS, BULLET_POINTS>>

layouts == <<BULLET_POINTS, TWO_COLUMN, CONTENT_WITH_IMAGE, BULLET_POINTS>>

\* the keyword arguments of the SlideContent built at loop index i
\* (i = 0 is the title slide built before the loop)
fallback_slide(t, i) ==
    LET layout == layouts[((i - 1) % Len(layouts)) + 1]
        n == ToString(i)
    IN  IF i = 0 THEN
            SlideFields(TITLE, t, Some("A comprehensive overview of " \o t),
                        None, None, None, None)
        ELSE IF layout = BULLET_POINTS THEN
            SlideFields(layout, "Key Points About " \o t \o " (" \o n \o ")", None,
                        Some(<<"Important aspect " \o n \o ".1 of " \o t,
                               "Critical consideration " \o n \o ".2 for understanding",
                               "Essential element " \o n \o ".3 to remember",
                               "Notable feature " \o n \o ".4 worth exploring">>),
                        None, None, None)
        ELSE IF layout = TWO_COLUMN THEN
            SlideFields(layout, "Comparing Aspects of " \o t, None, None,
                        Some("Traditional approaches to " \o t
                             \o " include established methods and proven techniques."),
                        Some("Modern innovations in " \o t
                             \o " bring new perspectives and advanced solutions."),
                        None)
        ELSE
            SlideFields(layout, "Visual Overview of " \o t,
                        Some("This section provides a detailed exploration of " \o t
                             \o ", highlighting its significance and practical applications in real-world scenarios."),
                        None, None, None,
                        Some("Illustration showing key concepts of " \o t))

fallback_citations(t) ==
    << [source |-> Some("Academic Research Database"),
        title |-> Some("Comprehensive Study on " \o t), date |-> Some("2024")],
       [source |-> Some("Industry Publications"),
        title |-> Some("Latest Trends in " \o t), date |-> Some("2024")] >>

\* lines 263-281 for the slides built by lines 219-261: raised when one
\* of the SlideContent constructions failed, else the return value
fallback_result(built, t, n, inc) ==
    IF \A k \in 1..Len(built) : SlideContent(built[k])
    THEN [raised |-> FALSE,
          slides |-> SubSeq(built, 1, IF n < Len(built) THEN n ELSE Len(built)),
          citations |-> IF inc THEN Some(fallback_citations(t)) ELSE None]
    ELSE [raised |-> TRUE, slides |-> <<>>, citations |-> None]

\* _generate_fallback_content(topic, num_slides, include_citations), n >= 0:
\* the title slide and one slide for each i of range(1, n)
generate_fallback_content(t, n, inc) ==
    fallback_result([k \in 1..(IF n >= 1 THEN n ELSE 1) |-> fallback_slide(t, k - 1)],
                    t, n, inc)

(***************************************************************************)
(* __validate_parameters: TRUE when it returns, FALSE when it raises       *)
(* ValueError.                                                             *)
(***************************************************************************)
validate_parameters_no_upper(t, n) ==
    /\ ~(t = "" \/ strip(t) = "")
    /\ min_slides <= n

validate_parameters(t, n) ==
    /\ ~(t = "" \/ strip(t) = "")
    /\ (min_slides <= n /\ n <= max_slides)

has_api_key_not_none(k) == k # None

\* the test of generate_slides and __init__ for a configured credential
has_api_key(k) == k # None /\ k # Some("")

(***************************************************************************)
(* The text of the endpoint.  A payload is written in a reduced JSON:      *)
(*     {S[{t}{b}]C[{c}]}                                                   *)
(* '{' '}' '[' ']' are the JSON characters, S stands for the key "slides"  *)
(* with its colon, C for the key "citations", and the single letter        *)
(* inside an entry's braces stands for that object's members (slide_data,  *)
(* citation_data).  Both keys are optional.                                *)
(***************************************************************************)
SlideLetters == {"t", "b", "x"}
CitationLetters == {"c", "n"}

\* the dict an entry letter stands for
slide_data(ch) ==
    IF ch = "t" THEN
        SlideFields(TITLE, "Intro", Some("Subtitle"), None, None, None, None)
    ELSE IF ch = "b" THEN
        SlideFields(BULLET_POINTS, "Facts", None, Some(<<"one", "two", "three">>),
                    None, None, None)
    ELSE \* "x": a bullet_points slide with two points only
        SlideFields(BULLET_POINTS, "Short", None, Some(<<"one", "two">>),
                    None, None, None)

citation_data(ch) ==
    IF ch = "c" THEN [source |-> Some("WHO"), title |-> Some("Report"), date |-> None]
    ELSE \* "n": no source
        [source |-> None, title |-> Some("Untitled"), date |-> None]

\* the entries "{a}{b}..." of a list starting at position i (1-based) up to
\* the closing ']': the letters read and the position after ']'
RECURSIVE decode_entries(_, _, _, _)
decode_entries(s, i, letters, acc) ==
    IF i > Len(s) THEN [ok |-> FALSE, items |-> <<>>, next |-> i]
    ELSE IF Char(s, i) = "]" THEN [ok |-> TRUE, items |-> acc, next |-> i + 1]
    ELSE IF /\ i + 2 <= Len(s)
            /\ Char(s, i) = "{"
            /\ Char(s, i + 1) \in letters
            /\ Char(s, i + 2) = "}"
         THEN decode_entries(s, i + 3, letters, Append(acc, Char(s, i + 1)))
         ELSE [ok |-> FALSE, items |-> <<>>, next |-> i]

\* an optional member  K[...]  at position i
decode_member(s, i, key, letters) ==
    IF i + 1 <= Len(s) /\ Char(s, i) = key /\ Char(s, i + 1) = "["
    THEN LET r == decode_entries(s, i + 2, letters, <<>>)
         IN  [ok |-> r.ok, present |-> TRUE, items |-> r.items, next |-> r.next]
    ELSE [ok |-> TRUE, present |-> FALSE, items |-> <<>>, next |-> i]

\* json.loads(json_str): ok is FALSE when decoding raises
json_loads(s) ==
    LET bad == [ok |-> FALSE, has_slides |-> FALSE, slides |-> <<>>,
                has_citations |-> FALSE, citations |-> <<>>]
    IN  IF Len(s) < 2 \/ Char(s, 1) # "{" THEN bad
        ELSE LET ms == decode_member(s, 2, "S", SlideLetters)
             IN  IF ~ms.ok THEN bad
                 ELSE LET mc == decode_member(s, ms.next, "C", CitationLetters)
                      IN  IF ~mc.ok THEN bad
                          ELSE IF mc.next = Len(s) /\ Char(s, mc.next) = "}"
                          THEN [ok |-> TRUE,
                                has_slides |-> ms.present, slides |-> ms.items,
                                has_citations |-> mc.present, citations |-> mc.items]
                          ELSE bad

\* json.dumps of a payload, in the same reduced JSON
RECURSIVE encode_entries(_)
encode_entries(items) ==
    IF items = <<>> THEN ""
    ELSE "{" \o Head(items) \o "}" \o encode_entries(Tail(items))

json_dumps(p) ==
    "{" \o (IF p.has_slides THEN "S[" \o encode_entries(p.slides) \o "]" ELSE "")
        \o (IF p.has_citations THEN "C[" \o encode_entries(p.citations) \o "]" ELSE "")
        \o "}"

(***************************************************************************)
(* _parse_llm_response.                                                    *)
(***************************************************************************)
json_span_whole_prefix(resp) ==
    LET end_idx == rfind(resp, "}") + 1
    IN  IF end_idx > 0 THEN Some(Slice(resp, 0, end_idx)) ELSE None

\* response[start_idx:end_idx] when a span is found: <<json_str>>, else <<>>
json_span(resp) ==
    LET start_idx == find(resp, "{")
        end_idx == rfind(resp, "}") + 1
    IN  IF start_idx # -1 /\ end_idx > start_idx
        THEN Some(Slice(resp, start_idx, end_idx))
        ELSE None

kept_entries_untruncated(data, n) == data.slides

\* data.get('slides', [])[:num_slides]
kept_entries(data, n) ==
    SubSeq(data.slides, 1, IF n < Len(data.slides) THEN n ELSE Len(data.slides))

\* the try block of _parse_llm_response: ok is FALSE when a statement of
\* it raises
parse_raised == [ok |-> FALSE, slides |-> <<>>, citations |-> None]

\* lines 186-192
parse_citations(kept, data) ==
    IF data.has_citations /\ data.citations # <<>>
    THEN IF \E k \in 1..Len(data.citations) : ~Citation(citation_data(data.citations[k]))
         THEN parse_raised
         ELSE [ok |-> TRUE,
               slides |-> [k \in 1..Len(kept) |-> slide_data(kept[k])],
               citations |-> Some([k \in 1..Len(data.citations) |->
                                      citation_data(data.citations[k])])]
    ELSE [ok |-> TRUE,
          slides |-> [k \in 1..Len(kept) |-> slide_data(kept[k])],
          citations |-> None]

\* lines 181-184
parse_slides(kept, data) ==
    IF \E k \in 1..Len(kept) : ~SlideContent(slide_data(kept[k]))
    THEN parse_raised
    ELSE parse_citations(kept, data)

\* lines 178-182
parse_data(data, n) ==
    IF ~data.ok THEN parse_raised ELSE parse_slides(kept_entries(data, n), data)

\* lines 174-178 and 193-194
parse_span(span, n) ==
    IF span = None THEN parse_raised ELSE parse_data(json_loads(span[1]), n)

parse_try(resp, n) == parse_span(json_span(resp), n)

\* the return of the try block (r), else the except clause, whose call of
\* the fallback has the outcome f
parse_outcome(r, f) ==
    IF r.ok
    THEN [raised |-> FALSE, parsed |-> TRUE, slides |-> r.slides,
          citations |-> r.citations, fallbacks |-> 0]
    ELSE [raised |-> f.raised, parsed |-> FALSE, slides |-> f.slides,
          citations |-> f.citations, fallbacks |-> 1]

\* the fallback of the except clause called with include_citations=True
parse_llm_response_keeps_citations(resp, n) ==
    parse_outcome(parse_try(resp, n),
                  generate_fallback_content("Generated Content", n, TRUE))

\* the slides appended before the first failing construction
parsed_prefix(kept) ==
    LET good == {k \in 0..Len(kept) : \A j \in 1..k : SlideContent(slide_data(kept[j]))}
        upto == CHOOSE k \in good : \A j \in good : j <= k
    IN  [k \in 1..upto |-> slide_data(kept[k])]

partial_outcome(r, span, n) ==
    IF r.ok
    THEN [raised |-> FALSE, parsed |-> TRUE, slides |-> r.slides,
          citations |-> r.citations, fallbacks |-> 0]
    ELSE [raised |-> FALSE, parsed |-> FALSE,
          slides |-> IF span = None THEN <<>>
                     ELSE parsed_prefix(kept_entries(json_loads(span[1]), n)),
          citations |-> None, fallbacks |-> 0]

\* the except clause returning the slides appended before the failure
parse_llm_response_partial(resp, n) ==
    partial_outcome(parse_try(resp, n), json_span(resp), n)

\* _parse_llm_response(response, num_slides)
parse_llm_response(resp, n) ==
    parse_outcome(parse_try(resp, n),
                  generate_fallback_content("Generated Content", n, FALSE))

(***************************************************************************)
(* _generate_with_llm after the await of client.post.                      *)
(***************************************************************************)
\* envelopes from which lines 133-149 extract a text
TextEnvelopes == {"choices", "output"}
\* envelopes on which lines 133-149 raise (IndexError, ValueError)
BrokenEnvelopes == {"choices_empty", "output_empty", "output_no_content", "unexpected"}

\* a (slides, citations) outcome f of the fallback as the outcome of
\* _generate_with_llm
llm_result(f, branch, calls) ==
    [raised |-> f.raised, slides |-> f.slides, citations |-> f.citations,
     path |-> branch, fallbacks |-> calls]

\* line 153: the outcome q of _parse_llm_response is returned
llm_parsed(q) ==
    [raised |-> q.raised, slides |-> q.slides, citations |-> q.citations,
     path |-> IF q.parsed THEN "parsed" ELSE "parse_failed",
     fallbacks |-> q.fallbacks]

\* an exception raised in the try block before any fallback call
llm_raised == [raised |-> TRUE, slides |-> <<>>, citations |-> None,
               path |-> "", fallbacks |-> 0]

\* the status branch calling the fallback with include_citations=False
llm_try_status_drops_citations(r, t, n, inc) ==
    IF r.raised THEN llm_raised
    ELSE IF r.status_code # HTTP_OK
    THEN llm_result(generate_fallback_content(t, n, FALSE), "status", 1)
    ELSE IF r.envelope \in TextEnvelopes
    THEN llm_parsed(parse_llm_response(r.content, n))
    ELSE llm_raised

\* the try block of _generate_with_llm from the await on (lines 116-153);
\* r is the outcome of client.post
llm_try(r, t, n, inc) ==
    IF r.raised THEN llm_raised
    ELSE IF r.status_code # HTTP_OK
    THEN llm_result(generate_fallback_content(t, n, inc), "status", 1)
    ELSE IF r.envelope \in TextEnvelopes
    THEN llm_parsed(parse_llm_response(r.content, n))
    ELSE llm_raised

\* the except clause of _generate_with_llm (lines 155-158); before is the
\* number of fallback calls made inside the try block
llm_except(t, n, inc, before) ==
    llm_result(generate_fallback_content(t, n, inc), "exception", before + 1)

\* what the try block returned, else what the except clause does
llm_finish(tried, t, n, inc) ==
    IF tried.raised THEN llm_except(t, n, inc, tried.fallbacks) ELSE tried

\* _generate_with_llm from the await on
generate_with_llm(r, t, n, inc) == llm_finish(llm_try(r, t, n, inc), t, n, inc)

(***************************************************************************)
(* Inputs.                                                                 *)
(***************************************************************************)
\* topics: empty, blank, short, one whose longer templated titles exceed
\* the title bound, and one that exceeds it by itself
Topics == {"", "   ", "Cat", Repeat("a", TitleMaxLength - 21),
           Repeat("a", TitleMaxLength + 1)}
\* slide counts: around both ends of the configured range and around the
\* lengths of the payloads
SlideCounts == {min_slides - 1, max_slides, max_slides + 1}
               \cup (min_slides..(MaxPayloadSlides + 1))
ApiKeys == {None, Some(""), Some("sk-test")}

SeqsUpTo(S, n) == UNION {[1..k -> S] : k \in 0..n}

\* a key that is absent has no entries
Payloads ==
    {p \in [has_slides : BOOLEAN, slides : SeqsUpTo(SlideLetters, MaxPayloadSlides),
            has_citations : BOOLEAN,
            citations : SeqsUpTo(CitationLetters, MaxPayloadCitations)] :
        /\ p.has_slides \/ p.slides = <<>>
        /\ p.has_citations \/ p.citations = <<>>}

Prefixes == {"", "Here you go: ", "{"}
Suffixes == {"", " Enjoy!", " }"}
Damages == {"none", "unclosed"}

\* the {...} block the endpoint writes for a payload
block_of(p, damage) ==
    LET b == json_dumps(p)
    IN  IF damage = "unclosed" THEN SubSeq(b, 1, Len(b) - 1) ELSE b

NoReply == [pre |-> "", payload |-> [has_slides |-> FALSE, slides |-> <<>>,
                                     has_citations |-> FALSE, citations |-> <<>>],
            damage |-> "none", post |-> ""]
NoResponse == [raised |-> FALSE, status_code |-> 0, envelope |-> "", content |-> ""]

(***************************************************************************)
(* PresentationGenerator.  A page is what one add_slide call and the       *)
(* statements after it put on it: the texts of its boxes in the order they *)
(* are filled, with the sizes and the colour of the theme.  A page on      *)
(* which a statement raised stays in the document with complete = FALSE.   *)
(* Lengths are in EMU (914400 to the inch).                                *)
(***************************************************************************)
SlideWidth == 9144000           \* Inches(10)
SlideHeightWide == 5143500      \* Inches(5.625)
SlideHeightStandard == 6858000  \* Inches(7.5)
ReducedTitle == 8
ReducedBody == 2

\* the truth value of an Optional[str]
truthy(v) == v # None /\ v[1] # ""
\* v or ""
or_empty(v) == IF truthy(v) THEN v[1] ELSE ""

\* a value of layout that no validated SlideContent carries: an object
\* without .value
NoMember == "no_member"

Page(kind, title, title_size, color, body_size, boxes, complete) ==
    [kind |-> kind, title |-> title, title_size |-> title_size, color |-> color,
     body_size |-> body_size, boxes |-> boxes, complete |-> complete]

\* the outcome of the statements that add one page
added(page) == [raised |-> FALSE, error |-> "", pages |-> <<page>>]
failed(err, page) == [raised |-> TRUE, error |-> err, pages |-> <<page>>]

\* the title box: title_frame.text, Pt(font_size_title [- 8]), the name,
\* bold and the colour, in this order; error is "" when none raises
title_error(th) ==
    IF th.font_size_title = None THEN "TypeError"
    ELSE IF th.primary_color = None THEN "AttributeError"
    ELSE IF hex_to_rgb(th.primary_color).raised THEN "ValueError"
    ELSE ""

\* the page after the title box is done
titled(th, kind, title, reduce) ==
    Page(kind, title, th.font_size_title[1] - reduce,
         hex_to_rgb(th.primary_color).rgb, 0, <<>>, FALSE)

\* the page on which the title box raised
untitled(kind, title) == Page(kind, title, 0, <<>>, 0, <<>>, FALSE)

\* the page p with its boxes filled at the body size less reduce
filled(th, p, boxes, reduce) ==
    [p EXCEPT !.body_size = th.font_size_body[1] - reduce, !.boxes = boxes,
              !.complete = TRUE]

\* a page whose boxes all take Pt(font_size_body [- 2])
body(th, p, boxes, reduce) ==
    IF th.font_size_body = None THEN failed("TypeError", p)
    ELSE added(filled(th, p, boxes, reduce))

\* a page whose boxes take the body size only when there are any
optional_body(th, p, boxes) ==
    IF boxes = <<>> THEN added([p EXCEPT !.complete = TRUE])
    ELSE body(th, p, boxes, 0)

\* _add_title_slide
add_title_slide(th, c) ==
    IF title_error(th) # "" THEN failed(title_error(th), untitled(c.layout, c.title))
    ELSE optional_body(th, titled(th, c.layout, c.title, 0),
                       IF truthy(c.content) THEN <<c.content[1]>> ELSE <<>>)

\* every bullet point put into a paragraph added for it
bullet_paragraph_added(ps, bs, i) == Append(ps, bs[i])

\* lines 170-175: the bullet point of 1-based index i goes into the
\* paragraph the text frame starts with when it is the first, and into
\* an added paragraph otherwise
bullet_paragraph(ps, bs, i) ==
    IF i = 1 THEN [ps EXCEPT ![1] = bs[i]] ELSE Append(ps, bs[i])

\* lines 169-179: the paragraphs ps of the text frame after the bullet
\* points of bs from index i on are written
RECURSIVE bullet_paragraphs(_, _, _)
bullet_paragraphs(ps, bs, i) ==
    IF i > Len(bs) THEN ps
    ELSE bullet_paragraphs(bullet_paragraph(ps, bs, i), bs, i + 1)

\* _add_bullet_points_slide: the text frame of a new text box holds one
\* empty paragraph; the loop runs under `if content.bullet_points`
add_bullet_points_slide(th, c) ==
    IF title_error(th) # "" THEN failed(title_error(th), untitled(c.layout, c.title))
    ELSE optional_body(th, titled(th, c.layout, c.title, ReducedTitle),
                       IF c.bullet_points # None /\ c.bullet_points[1] # <<>>
                       THEN bullet_paragraphs(<<"">>, c.bullet_points[1], 1)
                       ELSE <<>>)

\* _add_two_column_slide
add_two_column_slide(th, c) ==
    IF title_error(th) # "" THEN failed(title_error(th), untitled(c.layout, c.title))
    ELSE body(th, titled(th, c.layout, c.title, ReducedTitle),
              <<or_empty(c.left_column), or_empty(c.right_column)>>, 0)

\* _add_content_with_image_slide: the text, and the caption of the
\* placeholder when there is a description
add_content_with_image_slide(th, c) ==
    IF title_error(th) # "" THEN failed(title_error(th), untitled(c.layout, c.title))
    ELSE body(th, titled(th, c.layout, c.title, ReducedTitle),
              IF truthy(c.image_description)
              THEN <<or_empty(c.content), "[Image: " \o c.image_description[1] \o "]">>
              ELSE <<or_empty(c.content)>>, 0)

\* line 60 and _add_slide: content.layout.value is read for the log, then
\* the if/elif chain dispatches; no branch is taken for another layout
add_slide(th, c) ==
    IF c.layout = NoMember
    THEN [raised |-> TRUE, error |-> "AttributeError", pages |-> <<>>]
    ELSE IF c.layout = TITLE THEN add_title_slide(th, c)
    ELSE IF c.layout = BULLET_POINTS THEN add_bullet_points_slide(th, c)
    ELSE IF c.layout = TWO_COLUMN THEN add_two_column_slide(th, c)
    ELSE IF c.layout = CONTENT_WITH_IMAGE THEN add_content_with_image_slide(th, c)
    ELSE [raised |-> FALSE, error |-> "", pages |-> <<>>]

\* the paragraph with the date put before the title
citation_text_date_first(c) ==
    c.source[1] \o (IF truthy(c.date) THEN " (" \o c.date[1] \o ")" ELSE "")
                \o (IF truthy(c.title) THEN " - " \o c.title[1] ELSE "")

\* the paragraph of one citation
citation_text(c) ==
    c.source[1] \o (IF truthy(c.title) THEN " - " \o c.title[1] ELSE "")
                \o (IF truthy(c.date) THEN " (" \o c.date[1] \o ")" ELSE "")

\* _add_citations_slide
add_citations_slide(th, cs) ==
    IF title_error(th) # "" THEN failed(title_error(th), untitled("references", "References"))
    ELSE body(th, titled(th, "references", "References", ReducedTitle),
              [k \in 1..Len(cs) |-> citation_text(cs[k])], ReducedBody)

\* self.prs = Presentation() with the slide size of the aspect ratio
blank_presentation(ratio) ==
    [width |-> SlideWidth,
     height |-> IF ratio = "16:9" THEN SlideHeightWide ELSE SlideHeightStandard,
     pages |-> <<>>]

\* the document doc after the statements with outcome r
after_add(doc, r) ==
    [raised |-> r.raised, error |-> r.error,
     prs |-> [doc EXCEPT !.pages = doc.pages \o r.pages]]

\* lines 59-61: the slides from index i on are added to doc until one
\* raises
RECURSIVE add_slides(_, _, _, _)
add_slides_step(th, ss, i, o) ==
    IF o.raised THEN o ELSE add_slides(th, ss, i + 1, o.prs)
add_slides(th, ss, i, doc) ==
    IF i > Len(ss) THEN [raised |-> FALSE, error |-> "", prs |-> doc]
    ELSE add_slides_step(th, ss, i, after_add(doc, add_slide(th, ss[i])))

\* a test for a citation list that is not None
add_citations_when_not_none(th, cs, o) ==
    IF o.raised \/ cs = None THEN o
    ELSE after_add(o.prs, add_citations_slide(th, cs[1]))

\* lines 64-66 after the slides were added with outcome o
add_citations(th, cs, o) ==
    IF o.raised \/ cs = None \/ cs = Some(<<>>) THEN o
    ELSE after_add(o.prs, add_citations_slide(th, cs[1]))

\* create_presentation(slides, citations, aspect_ratio) of a generator
\* with theme th: prs is self.prs afterwards, returned unless raised
create_presentation(th, ss, cs, ratio) ==
    add_citations(th, cs, add_slides(th, ss, 1, blank_presentation(ratio)))

(***************************************************************************)
(* Files: save_presentation, FileStorage.save and the part of the generate *)
(* handler after the slides are at hand.  The file system is the set of    *)
(* the files written, each a path with the document it holds.              *)
(***************************************************************************)
output_dir == "./generated_presentations"

\* os.path.join(dir, f"{presentation_id}.pptx")
pptx_path(dir, id) == dir \o "/" \o id \o ".pptx"

write_file(fs, p, doc) == {f \in fs : f.path # p} \cup {[path |-> p, document |-> doc]}
file_exists(fs, p) == \E f \in fs : f.path = p
read_file(fs, p) == (CHOOSE f \in fs : f.path = p).document

\* save_presentation(file_path) of a generator holding p as self.prs
save_presentation(fs, p, file_path) ==
    IF p = None THEN [raised |-> TRUE, error |-> "AttributeError", files |-> fs]
    ELSE [raised |-> FALSE, error |-> "", files |-> write_file(fs, file_path, p[1])]

\* FileStorage.save(file_path, presentation_id, content) of a storage on
\* base_dir: shutil.copy2 raises when source and destination are one file,
\* shutil.move when the source does not exist; content is None or bytes,
\* and empty bytes are false
storage_save(fs, base_dir, file_path, id, content) ==
    IF content # None /\ content[1] # ""
    THEN [raised |-> FALSE, error |-> "",
          files |-> write_file(fs, pptx_path(base_dir, id), content[1])]
    ELSE IF file_exists(fs, file_path)
    THEN IF file_path = pptx_path(base_dir, id)
         THEN [raised |-> TRUE, error |-> "SameFileError", files |-> fs]
         ELSE [raised |-> FALSE, error |-> "",
               files |-> write_file(fs, pptx_path(base_dir, id), read_file(fs, file_path))]
    ELSE IF file_path # pptx_path(base_dir, id)
    THEN [raised |-> TRUE, error |-> "FileNotFoundError", files |-> fs]
    ELSE [raised |-> FALSE, error |-> "", files |-> fs]

\* FileStorage.get(presentation_id): the location, None when there is no
\* file
storage_get(fs, base_dir, id) ==
    IF file_exists(fs, pptx_path(base_dir, id)) THEN Some(pptx_path(base_dir, id))
    ELSE None

\* FileStorage.exists(presentation_id)
storage_exists(fs, base_dir, id) == storage_get(fs, base_dir, id) # None

\* FileStorage.delete(presentation_id)
storage_delete(fs, base_dir, id) ==
    IF storage_get(fs, base_dir, id) = None
    THEN [returned |-> FALSE, files |-> fs]
    ELSE [returned |-> TRUE,
          files |-> {f \in fs : f.path # storage_get(fs, base_dir, id)[1]}]

(***************************************************************************)
(* StorageFactory.  The registry is a function from backend names to       *)
(* classes; a class is known by its name.                                  *)
(***************************************************************************)
\* issubclass(storage_class, BaseStorage)
extends_BaseStorage(storage_class) ==
    storage_class \in {"BaseStorage", "FileStorage", "S3Storage"}

\* register_backend(name, storage_class) on the registry reg
register_backend(reg, name, storage_class) ==
    IF ~extends_BaseStorage(storage_class)
    THEN [raised |-> TRUE, error |-> "TypeError", backends |-> reg]
    ELSE [raised |-> FALSE, error |-> "",
          backends |-> [n \in DOMAIN reg \cup {name} |->
                           IF n = name THEN storage_class ELSE reg[n]]]

\* a setter that takes any name
set_default_backend_unchecked(reg, default, backend) ==
    [raised |-> FALSE, error |-> "", default |-> backend]

\* set_default_backend(backend)
set_default_backend(reg, default, backend) ==
    IF backend \notin DOMAIN reg
    THEN [raised |-> TRUE, error |-> "Cannot set default to unregistered backend",
          default |-> default]
    ELSE [raised |-> FALSE, error |-> "", default |-> backend]

\* create(backend) for backend None or a name: storage_class is the class
\* instantiated, whose constructor raises for the abstract base class
create(reg, default, backend) ==
    IF (IF backend # None /\ backend[1] # "" THEN backend[1] ELSE default)
           \notin DOMAIN reg
    THEN [raised |-> TRUE, error |-> "Unsupported storage backend"]
    ELSE IF reg[IF backend # None /\ backend[1] # "" THEN backend[1] ELSE default]
               = "BaseStorage"
    THEN [raised |-> TRUE, error |-> "TypeError"]
    ELSE [raised |-> FALSE, error |-> ""]

\* the class attributes of StorageFactory when the module is loaded, and
\* a FileStorage on which no call was made
IdleStorage ==
    /\ storage_backends = [n \in {"file_storage"} |-> "FileStorage"]
    /\ default_backend = "file_storage"
    /\ storage_calls = <<>>

\* lines 90-98 or the except clause, after storage.save with outcome st
handler_outcome(o, st) ==
    [failed |-> st.raised, error |-> st.error, prs |-> Some(o.prs),
     document |-> Some(o.prs), files |-> st.files]

\* lines 76-84 for the rendered document of outcome o: the temporary file
\* is written into output_dir, then handed to the storage, whose base_dir
\* is output_dir as well
handler_store(o, saved, id) ==
    handler_outcome(o, storage_save(saved.files, output_dir,
                                    pptx_path(output_dir, id), id, None))

\* lines 69-73 ended with outcome o
handler_rendered(o, fs, id) ==
    IF o.raised
    THEN [failed |-> TRUE, error |-> o.error, prs |-> Some(o.prs),
          document |-> None, files |-> fs]
    ELSE handler_store(o, save_presentation(fs, Some(o.prs), pptx_path(output_dir, id)), id)

\* lines 67-105 of generate_presentation for the slides ss and citations cs
handler_render(th, ss, cs, ratio, fs, id) ==
    handler_rendered(create_presentation(th, ss, cs, ratio), fs, id)

\* line 53: if generate_req.custom_content
use_custom(cc) == cc # None /\ cc[1] # <<>>

\* no schema under test, no renderer, no handler and no request in flight
IdleRenderer ==
    /\ kwargs = <<>>
    /\ theme = DefaultTheme
    /\ rgb = <<>>
    /\ custom_content = None
    /\ aspect_ratio = "16:9"
    /\ prs = None
    /\ document = None
    /\ files = {}
    /\ hpc = "idle"
    /\ requests = <<>>

(***************************************************************************)
(* The generate_slides call.                                               *)
(***************************************************************************)
Init ==
    /\ IdleRenderer
    /\ api_key \in ApiKeys
    /\ topic \in Topics
    /\ num_slides \in SlideCounts
    /\ include_citations \in BOOLEAN
    /\ pc = "start"
    /\ error = ""
    /\ slides = <<>>
    /\ citations = None
    /\ response = NoResponse
    /\ reply = NoReply
    /\ path = ""
    /\ post_calls = 0
    /\ fallback_calls = 0
    /\ IdleStorage

\* generate_slides up to its return, its raise, or the await in
\* _generate_with_llm
generate_slides ==
    /\ pc = "start"
    /\ IF ~validate_parameters(topic, num_slides) THEN
           /\ pc' = "raised"
           /\ error' = "ValueError"
           /\ path' = "validation"
           /\ UNCHANGED <<slides, citations, post_calls, fallback_calls>>
       ELSE IF has_api_key(api_key) THEN
           /\ pc' = "awaiting"
           /\ post_calls' = post_calls + 1
           /\ UNCHANGED <<error, path, slides, citations, fallback_calls>>
       ELSE
           \E f \in {generate_fallback_content(topic, num_slides, include_citations)} :
               /\ pc' = IF f.raised THEN "raised" ELSE "returned"
               /\ error' = IF f.raised THEN "ValidationError" ELSE ""
               /\ path' = "no_key"
               /\ slides' = f.slides
               /\ citations' = f.citations
               /\ fallback_calls' = fallback_calls + 1
               /\ UNCHANGED post_calls
    /\ UNCHANGED <<api_key, topic, num_slides, include_citations, response, reply>>
    /\ UNCHANGED rvars
    /\ UNCHANGED svars

\* the rest of generate_slides once client.post has produced r
resume(r, rep) ==
    \E o \in {generate_with_llm(r, topic, num_slides, include_citations)} :
        /\ response' = r
        /\ reply' = rep
        /\ pc' = IF o.raised THEN "raised" ELSE "returned"
        /\ error' = IF o.raised THEN "ValidationError" ELSE ""
        /\ path' = o.path
        /\ slides' = o.slides
        /\ citations' = o.citations
        /\ fallback_calls' = fallback_calls + o.fallbacks
        /\ UNCHANGED <<api_key, topic, num_slides, include_citations, post_calls>>
        /\ UNCHANGED rvars
        /\ UNCHANGED svars

\* client.post raises: timeout, connection error
post_raises ==
    /\ pc = "awaiting"
    /\ resume([raised |-> TRUE, status_code |-> 0, envelope |-> "", content |-> ""], NoReply)

\* client.post returns a response without a usable text: a non-success
\* status, or a 200 whose JSON has none of the expected shapes
post_returns_error ==
    /\ pc = "awaiting"
    /\ \/ \E code \in {500} :
             resume([raised |-> FALSE, status_code |-> code, envelope |-> "",
                     content |-> ""], NoReply)
       \/ \E env \in BrokenEnvelopes :
             resume([raised |-> FALSE, status_code |-> HTTP_OK, envelope |-> env,
                     content |-> ""], NoReply)

\* client.post returns 200 with a text
post_returns_text ==
    /\ pc = "awaiting"
    /\ \E env \in TextEnvelopes, pre \in Prefixes, post \in Suffixes,
          p \in Payloads, damage \in Damages :
        resume([raised |-> FALSE, status_code |-> HTTP_OK, envelope |-> env,
                   content |-> pre \o block_of(p, damage) \o post],
                  [pre |-> pre, payload |-> p, damage |-> damage, post |-> post])

Next ==
    \/ generate_slides
    \/ post_raises
    \/ post_returns_error
    \/ post_returns_text

Spec == Init /\ [][Next]_vars

(***************************************************************************)
(* The synthesizer alone, over the whole configured range of slide counts  *)
(* and over topic lengths up to the bound of GenerateRequest.topic.        *)
(***************************************************************************)
SynthTopics ==
    {"Cat"} \cup {Repeat("a", k) : k \in {TopicMinLength, TitleMaxLength - 22,
                                          TitleMaxLength - 21, TitleMaxLength,
                                          TitleMaxLength + 1, TopicMaxLength}}
SynthSlideCounts == (min_slides - 1)..(max_slides + 1)

SynthInit ==
    /\ IdleRenderer
    /\ api_key = None
    /\ topic \in SynthTopics
    /\ num_slides \in SynthSlideCounts
    /\ include_citations \in BOOLEAN
    /\ pc = "start"
    /\ error = ""
    /\ slides = <<>>
    /\ citations = None
    /\ response = NoResponse
    /\ reply = NoReply
    /\ path = ""
    /\ post_calls = 0
    /\ fallback_calls = 0
    /\ IdleStorage

\* one call _generate_fallback_content(topic, num_slides, include_citations)
synthesize ==
    \E f \in {generate_fallback_content(topic, num_slides, include_citations)} :
        /\ pc = "start"
        /\ pc' = IF f.raised THEN "raised" ELSE "returned"
        /\ error' = IF f.raised THEN "ValidationError" ELSE ""
        /\ path' = "synthesize"
        /\ slides' = f.slides
        /\ citations' = f.citations
        /\ fallback_calls' = fallback_calls + 1
        /\ UNCHANGED <<api_key, topic, num_slides, include_citations, response,
                       reply, post_calls>>
        /\ UNCHANGED rvars
        /\ UNCHANGED svars

SynthNext == synthesize

SpecSynth == SynthInit /\ [][SynthNext]_vars

\* no generate_slides call under way
IdleGenerator ==
    /\ api_key = None
    /\ topic = "Cat"
    /\ num_slides = min_slides
    /\ include_citations = FALSE
    /\ error = ""
    /\ slides = <<>>
    /\ citations = None
    /\ response = NoResponse
    /\ reply = NoReply
    /\ path = ""
    /\ post_calls = 0
    /\ fallback_calls = 0

(***************************************************************************)
(* ThemeConfig construction followed by the renderer's conversion of the   *)
(* primary colour.                                                         *)
(***************************************************************************)
\* two-character components: every pair over a few digits, and every
\* pair of hexadecimal digits
AllPairs == {a \o b : a, b \in HexChars}

\* '#' followed by six hexadecimal digits
HexColors ==
    {"#" \o x \o y \o z : x, y, z \in {a \o b : a, b \in {"0", "9", "a", "F"}}}
        \cup {"#" \o x \o "47" \o "88" : x \in AllPairs}
        \cup {"#" \o "1F" \o x \o "88" : x \in AllPairs}
        \cup {"#" \o "1F" \o "47" \o x : x \in AllPairs}

theme_kwargs(p, s2, t) ==
    [primary_color |-> p, secondary_color |-> s2, font_name |-> Omitted,
     font_size_title |-> t, font_size_body |-> Omitted]

ThemeKwargs ==
    {theme_kwargs(Given(c), Omitted, Omitted) : c \in HexColors}
        \cup {theme_kwargs(p, s2, t) :
                 \* strings that are not '#' followed by six hexadecimal digits
                 p \in {Omitted, Null} \cup {Given(c) : c \in
                         {"", "#", "red", "1F4788", "1F47889", "#12345",
                          "#1234567", "#GGGGGG", "##12345", "#12 456",
                          "#+1-2 3", "#0x1234", "#-1-1-1", "# 1 2 3"}},
                 s2 \in {Omitted, Null, Given("#ffffff"), Given("#GGGGGG"),
                         Given("FFFFFF")},
                 t \in {Omitted, Null} \cup {Given(k) : k \in
                         {FontSizeTitleMin - 1, FontSizeTitleMin,
                          FontSizeTitleMax, FontSizeTitleMax + 1}}}

ThemeInit ==
    /\ IdleGenerator
    /\ pc = "start"
    /\ kwargs \in ThemeKwargs
    /\ theme = DefaultTheme
    /\ rgb = <<>>
    /\ custom_content = None
    /\ aspect_ratio = "16:9"
    /\ prs = None
    /\ document = None
    /\ files = {}
    /\ hpc = "idle"
    /\ requests = <<>>
    /\ IdleStorage

\* ThemeConfig(**kwargs)
construct_theme ==
    /\ pc = "start"
    /\ IF ThemeConfig(kwargs)
       THEN /\ pc' = "constructed"
            /\ theme' = theme_fields(kwargs)
            /\ UNCHANGED error
       ELSE /\ pc' = "raised"
            /\ error' = "ValidationError"
            /\ UNCHANGED theme
    /\ UNCHANGED <<api_key, topic, num_slides, include_citations, slides,
                   citations, response, reply, path, post_calls, fallback_calls>>
    /\ UNCHANGED <<kwargs, rgb, custom_content, aspect_ratio, prs, document,
                   files, hpc, requests>>
    /\ UNCHANGED svars

\* self._hex_to_rgb(self.theme.primary_color)
convert_color ==
    /\ pc = "constructed"
    /\ \E r \in {hex_to_rgb(theme.primary_color)} :
          /\ pc' = IF r.raised THEN "convert_raised" ELSE "converted"
          /\ rgb' = r.rgb
    /\ UNCHANGED <<api_key, topic, num_slides, include_citations, error, slides,
                   citations, response, reply, path, post_calls, fallback_calls>>
    /\ UNCHANGED <<kwargs, theme, custom_content, aspect_ratio, prs, document,
                   files, hpc, requests>>
    /\ UNCHANGED svars

ThemeNext == construct_theme \/ convert_color

SpecTheme == ThemeInit /\ [][ThemeNext]_vars

(***************************************************************************)
(* SlideContent construction from keyword arguments.                       *)
(***************************************************************************)

slide_kwargs(layout, title, bullet_points, left_column, right_column) ==
    [layout |-> layout, title |-> title, content |-> Omitted,
     bullet_points |-> bullet_points, left_column |-> left_column,
     right_column |-> right_column, image_description |-> Omitted]

(***************************************************************************)
(* One PresentationGenerator and its caller: create_presentation, then     *)
(* save_presentation.                                                      *)
(***************************************************************************)
\* the keyword arguments of the slides given to the renderer
RenderSlideKwargs ==
    {[slide_kwargs(Given(TITLE), Given("Intro"), Omitted, Omitted, Omitted)
          EXCEPT !.content = Given("Subtitle")],
     slide_kwargs(Given(BULLET_POINTS), Given("Facts"),
                  Given(<<"one", "two", "three">>), Omitted, Omitted),
     slide_kwargs(Given(BULLET_POINTS), Given("Short"),
                  Given(<<"one", "two">>), Omitted, Omitted),
     slide_kwargs(Given(TWO_COLUMN), Given("Compare"), Omitted,
                  Given("Left"), Given("Right")),
     slide_kwargs(Given(TWO_COLUMN), Given("Half"), Omitted, Null, Given("Right")),
     [slide_kwargs(Given(CONTENT_WITH_IMAGE), Given("Visual"), Omitted, Omitted, Omitted)
          EXCEPT !.content = Given("Text"), !.image_description = Given("A cat")]}

\* the slides SlideContent constructs from them
ValidatedSlides == {slide_fields(kw) : kw \in {k \in RenderSlideKwargs : SlideContent_kw(k)}}

\* with them, slides whose layout was set without validation: a member
\* that is not one of the four, and an object that is no member
RenderSlides ==
    ValidatedSlides
        \cup {SlideFields("other_member", "Quote", None, None, None, None, None),
              SlideFields(NoMember, "Raw", None, None, None, None, None)}

\* themes ThemeConfig constructs
RenderThemes ==
    {theme_fields(kw) : kw \in {k \in
        {theme_kwargs(Omitted, Omitted, Omitted),
         theme_kwargs(Given("#ff0000"), Omitted, Given(FontSizeTitleMin)),
         theme_kwargs(Given("#GGGGGG"), Omitted, Omitted),
         theme_kwargs(Null, Omitted, Omitted),
         [theme_kwargs(Omitted, Omitted, Omitted) EXCEPT !.font_size_body = Null]} :
        ThemeConfig(k)}}

RenderCitations ==
    {None, Some(<<>>), Some(fallback_citations("Cat")),
     Some(<<[source |-> Some("WHO"), title |-> None, date |-> None]>>),
     Some(<<[source |-> Some("CDC"), title |-> None, date |-> Some("2020")],
            [source |-> Some("WHO"), title |-> Some("Report"), date |-> None]>>),
     Some(<<[source |-> Some("NIH"), title |-> Some(""), date |-> Some("")],
            [source |-> Some("CDC"), title |-> Some("Atlas"), date |-> Some("2021")],
            [source |-> Some("NIH"), title |-> Some(""), date |-> Some("")]>>)}

RenderInit ==
    /\ api_key = None
    /\ topic = "Cat"
    /\ num_slides = min_slides
    /\ include_citations = FALSE
    /\ pc = "start"
    /\ error = ""
    /\ slides \in SeqsUpTo(RenderSlides, MaxRenderSlides)
    /\ citations \in RenderCitations
    /\ response = NoResponse
    /\ reply = NoReply
    /\ path = ""
    /\ post_calls = 0
    /\ fallback_calls = 0
    /\ kwargs = <<>>
    /\ theme \in RenderThemes
    /\ rgb = <<>>
    /\ custom_content = None
    /\ aspect_ratio \in {"16:9", "4:3"}
    /\ prs = None
    /\ document = None
    /\ files = {}
    /\ hpc = "created"
    /\ requests = <<>>
    /\ IdleStorage

\* ppt_gen.create_presentation(slides, citations, aspect_ratio)
call_create_presentation ==
    /\ hpc = "created"
    /\ \E o \in {create_presentation(theme, slides, citations, aspect_ratio)} :
          /\ prs' = Some(o.prs)
          /\ document' = IF o.raised THEN None ELSE Some(o.prs)
          /\ error' = o.error
          /\ hpc' = IF o.raised THEN "render_failed" ELSE "rendered"
    /\ UNCHANGED <<api_key, topic, num_slides, include_citations, pc, slides,
                   citations, response, reply, path, post_calls, fallback_calls>>
    /\ UNCHANGED <<kwargs, theme, rgb, custom_content, aspect_ratio, files, requests>>
    /\ UNCHANGED svars

\* ppt_gen.save_presentation("out.pptx"): self.prs.save writes what the
\* generator holds; before any create_presentation self.prs is None
call_save_presentation ==
    /\ hpc \in {"created", "rendered", "render_failed"}
    /\ \E o \in {save_presentation(files, prs, "out.pptx")} :
          /\ hpc' = IF o.raised THEN "save_failed" ELSE "saved"
          /\ error' = IF o.raised THEN o.error ELSE error
          /\ files' = o.files
    /\ UNCHANGED <<api_key, topic, num_slides, include_citations, pc, slides,
                   citations, response, reply, path, post_calls, fallback_calls>>
    /\ UNCHANGED <<kwargs, theme, rgb, custom_content, aspect_ratio, prs,
                   document, requests>>
    /\ UNCHANGED svars

RenderNext == call_create_presentation \/ call_save_presentation

SpecRender == RenderInit /\ [][RenderNext]_vars

(***************************************************************************)
(* One SlideContent constructed from keyword arguments and rendered.       *)
(***************************************************************************)
SlideKwargs ==
    {slide_kwargs(layout, title, b, lc, rc) :
        layout \in {Omitted} \cup {Given(x) : x \in SlideLayout \cup {"unknown"}},
        title \in {Given("Facts"), Given("")},
        \* null, or a list of 0..MaxBullets bullet points
        b \in {Omitted, Null} \cup {Given([i \in 1..k |-> "point " \o ToString(i)]) :
                                       k \in 0..MaxBullets},
        lc \in {Omitted, Null, Given("Left")},
        rc \in {Omitted, Given("Right")}}

SlideInit ==
    /\ IdleGenerator
    /\ pc = "start"
    /\ kwargs \in SlideKwargs
    /\ theme = DefaultTheme
    /\ rgb = <<>>
    /\ custom_content = None
    /\ aspect_ratio = "16:9"
    /\ prs = None
    /\ document = None
    /\ files = {}
    /\ hpc = "idle"
    /\ requests = <<>>
    /\ IdleStorage

\* SlideContent(**kwargs); a constructed slide is handed to a renderer
construct_slide ==
    /\ pc = "start"
    /\ IF SlideContent_kw(kwargs)
       THEN /\ pc' = "constructed"
            /\ slides' = <<slide_fields(kwargs)>>
            /\ hpc' = "created"
            /\ UNCHANGED error
       ELSE /\ pc' = "raised"
            /\ error' = "ValidationError"
            /\ UNCHANGED <<slides, hpc>>
    /\ UNCHANGED <<api_key, topic, num_slides, include_citations, citations,
                   response, reply, path, post_calls, fallback_calls>>
    /\ UNCHANGED <<kwargs, theme, rgb, custom_content, aspect_ratio, prs,
                   document, files, requests>>
    /\ UNCHANGED svars

SlideNext == construct_slide \/ call_create_presentation

SpecSlide == SlideInit /\ [][SlideNext]_vars

(***************************************************************************)
(* One request to the generate handler: the request body is validated by   *)
(* GenerateRequest, then the handler runs.                                 *)
(***************************************************************************)
\* str(uuid.uuid4())
PresentationIds == {"1f0c", "9a7e"}

HandlerInit ==
    /\ api_key \in {None, Some("sk-test")}
    /\ topic = "Cat"
    /\ num_slides \in {min_slides, min_slides + 1}
    /\ include_citations \in BOOLEAN
    /\ pc = "idle"
    /\ error = ""
    /\ slides = <<>>
    /\ citations = None
    /\ response = NoResponse
    /\ reply = NoReply
    /\ path = ""
    /\ post_calls = 0
    /\ fallback_calls = 0
    /\ kwargs \in {[aspect_ratio |-> a] :
                     a \in {Omitted, Null, Given("16:9"), Given("4:3"), Given("1:1"),
                            Given("16:9 "), Given("")}}
    \* generate_req.theme or ThemeConfig()
    /\ theme \in {theme_fields(kw) : kw \in {theme_kwargs(Omitted, Omitted, Omitted),
                                             theme_kwargs(Null, Omitted, Omitted)}}
    /\ rgb = <<>>
    \* absent, or up to MaxCustomSlides slides
    /\ custom_content \in {None} \cup {Some(x) : x \in SeqsUpTo(ValidatedSlides,
                                                               MaxCustomSlides)}
    /\ aspect_ratio = ""
    /\ prs = None
    /\ document = None
    /\ files = {}
    /\ hpc = "constructing"
    /\ requests = <<>>
    /\ IdleStorage

\* GenerateRequest(**kwargs) of the request body, before the handler runs
construct_request ==
    /\ hpc = "constructing"
    /\ IF GenerateRequest_kw(kwargs)
       THEN /\ hpc' = "received"
            /\ aspect_ratio' = field(kwargs.aspect_ratio, Some("16:9"))[1]
            /\ UNCHANGED error
       ELSE /\ hpc' = "rejected"
            /\ error' = "ValidationError"
            /\ UNCHANGED aspect_ratio
    /\ UNCHANGED <<api_key, topic, num_slides, include_citations, pc, slides,
                   citations, response, reply, path, post_calls, fallback_calls>>
    /\ UNCHANGED <<kwargs, theme, rgb, custom_content, prs, document, files,
                   requests>>
    /\ UNCHANGED svars

\* generate_presentation up to its end with custom content, else up to
\* the call of generate_slides
handler_begin ==
    /\ hpc = "received"
    /\ IF use_custom(custom_content)
       THEN \E id \in PresentationIds :
            \E r \in {handler_render(theme, custom_content[1], None, aspect_ratio,
                                      files, id)} :
                /\ slides' = custom_content[1]
                /\ citations' = None
                /\ prs' = r.prs
                /\ document' = r.document
                /\ files' = r.files
                /\ error' = r.error
                /\ hpc' = IF r.failed THEN "failed" ELSE "done"
                /\ UNCHANGED pc
       ELSE /\ pc' = "start"
            /\ hpc' = "acquiring"
            /\ UNCHANGED <<slides, citations, prs, document, files, error>>
    /\ UNCHANGED <<api_key, topic, num_slides, include_citations, response,
                   reply, path, post_calls, fallback_calls>>
    /\ UNCHANGED <<kwargs, theme, rgb, custom_content, aspect_ratio, requests>>
    /\ UNCHANGED svars

\* generate_presentation after generate_slides returned or raised
handler_finish ==
    /\ hpc = "acquiring"
    /\ pc \in {"returned", "raised"}
    /\ IF pc = "raised"
       THEN /\ hpc' = "failed"
            /\ UNCHANGED <<prs, document, files, error>>
       ELSE \E id \in PresentationIds :
            \E r \in {handler_render(theme, slides, citations, aspect_ratio,
                                      files, id)} :
                /\ prs' = r.prs
                /\ document' = r.document
                /\ files' = r.files
                /\ error' = r.error
                /\ hpc' = IF r.failed THEN "failed" ELSE "done"
    /\ UNCHANGED <<api_key, topic, num_slides, include_citations, pc, slides,
                   citations, response, reply, path, post_calls, fallback_calls>>
    /\ UNCHANGED <<kwargs, theme, rgb, custom_content, aspect_ratio, requests>>
    /\ UNCHANGED svars

HandlerNext ==
    \/ construct_request
    \/ handler_begin
    \/ generate_slides
    \/ post_raises
    \/ post_returns_error
    \/ post_returns_text
    \/ handler_finish

SpecHandler == HandlerInit /\ [][HandlerNext]_vars

(***************************************************************************)
(* Requests to the generate handler handled concurrently on one event      *)
(* loop.  Every request runs generate_presentation in its own coroutine    *)
(* frame (requests[r]); a coroutine runs until it awaits client.post and   *)
(* again from the response to its end.  The settings (api_key) and the     *)
(* storage (files) are the objects the requests share.                     *)
(***************************************************************************)
Requests == 1..NumRequests
\* the frame of a request that has not started
new_frame(t, n, inc) ==
    [hpc |-> "received", topic |-> t, num_slides |-> n, include_citations |-> inc,
     response |-> NoResponse, slides |-> <<>>, citations |-> None,
     document |-> None, error |-> "", presentation_id |-> ""]

\* what client.post may produce
ConcResponses ==
    {[raised |-> TRUE, status_code |-> 0, envelope |-> "", content |-> ""],
     [raised |-> FALSE, status_code |-> 500, envelope |-> "", content |-> ""]}
        \cup {[raised |-> FALSE, status_code |-> HTTP_OK, envelope |-> "choices",
                content |-> json_dumps(q)] : q \in
                   {[has_slides |-> TRUE, slides |-> <<"t", "b">>,
                     has_citations |-> TRUE, citations |-> <<"c">>],
                    [has_slides |-> TRUE, slides |-> <<"x">>,
                     has_citations |-> FALSE, citations |-> <<>>]}}

ConcInit ==
    /\ api_key \in {None, Some("sk-test")}
    /\ topic = "Cat"
    /\ num_slides = min_slides
    /\ include_citations = FALSE
    /\ pc = "idle"
    /\ error = ""
    /\ slides = <<>>
    /\ citations = None
    /\ response = NoResponse
    /\ reply = NoReply
    /\ path = ""
    /\ post_calls = 0
    /\ fallback_calls = 0
    /\ kwargs = <<>>
    /\ theme = DefaultTheme
    /\ rgb = <<>>
    /\ custom_content = None
    /\ aspect_ratio = "16:9"
    /\ prs = None
    /\ document = None
    /\ files = {}
    /\ hpc = "idle"
    \* the requests the clients may send
    /\ requests \in [Requests -> {new_frame("Cat", min_slides, TRUE),
                                  new_frame("Dog", min_slides + 1, FALSE),
                                  new_frame("Cat", min_slides + 1, FALSE)}]
    /\ IdleStorage

\* the frame every coroutine would use if the request were kept in one
\* module-level variable, set by the first request
frame_of_first(rs, r) == rs[1]

\* the locals of the coroutine of request r
frame_of(rs, r) == rs[r]

\* the record of a request at the end of the handler: acq is the outcome
\* of generate_slides and h the outcome of lines 67-105, were they reached
conc_end(fr, acq, h, id) ==
    IF acq.raised
    THEN [fr EXCEPT !.hpc = "failed", !.error = "ValidationError"]
    ELSE [fr EXCEPT !.hpc = IF h.failed THEN "failed" ELSE "done",
                    !.error = h.error, !.slides = acq.slides,
                    !.citations = acq.citations, !.document = h.document,
                    !.presentation_id = id]

\* the handler from the slides of outcome acq on
conc_render(acq, fs, id) ==
    handler_render(DefaultTheme, acq.slides, acq.citations, "16:9", fs, id)

\* the coroutine of request r from the outcome acq of generate_slides to
\* its end; resp is what its client.post produced
conc_finish(r, resp, acq, id) ==
    /\ requests' = [requests EXCEPT ![r] =
                       conc_end([requests[r] EXCEPT !.response = resp], acq,
                                conc_render(acq, files, id), id)]
    /\ files' = IF acq.raised THEN files ELSE conc_render(acq, files, id).files

\* str(uuid.uuid4()): a value no other request has drawn
UnusedIds ==
    {id \in {ToString(k) : k \in 1..(NumRequests + 1)} :
        \A q \in Requests : requests[q].presentation_id # id}

\* the coroutine of request r up to the await of client.post, or to its
\* end when no credential is configured
conc_begin(r) ==
    /\ requests[r].hpc = "received"
    /\ \E fr \in {frame_of(requests, r)} :
          IF has_api_key(api_key)
          THEN /\ requests' = [requests EXCEPT ![r].hpc = "awaiting"]
               /\ UNCHANGED files
          ELSE \E id \in UnusedIds :
                  conc_finish(r, NoResponse,
                              generate_fallback_content(fr.topic, fr.num_slides,
                                                        fr.include_citations), id)
    /\ UNCHANGED gvars
    /\ UNCHANGED <<kwargs, theme, rgb, custom_content, aspect_ratio, prs,
                   document, hpc>>
    /\ UNCHANGED svars

\* the coroutine of request r from the response of client.post to its end
conc_resume(r) ==
    /\ requests[r].hpc = "awaiting"
    /\ \E resp \in ConcResponses, id \in UnusedIds :
       \E fr \in {frame_of(requests, r)} :
          conc_finish(r, resp,
                      generate_with_llm(resp, fr.topic, fr.num_slides,
                                        fr.include_citations), id)
    /\ UNCHANGED gvars
    /\ UNCHANGED <<kwargs, theme, rgb, custom_content, aspect_ratio, prs,
                   document, hpc>>
    /\ UNCHANGED svars

ConcNext == \E r \in Requests : conc_begin(r) \/ conc_resume(r)

SpecConc == ConcInit /\ [][ConcNext]_vars

(***************************************************************************)
(* One FileStorage on the default base directory, empty at the start, and  *)
(* a caller that saves and deletes.  Every call is logged with what it     *)
(* returned and with the ids that had a file before it.                    *)
(***************************************************************************)
StorageIds == {"a", "b"}

\* the ids for which exists() is true
stored_ids(fs) == {id \in StorageIds : storage_exists(fs, output_dir, id)}

\* nothing under way: the factory as loaded, the base directory empty
StorageInit ==
    /\ IdleGenerator
    /\ IdleRenderer
    /\ IdleStorage
    /\ pc = "idle"

\* storage.save(src, id, content): src is a path without a file, or the
\* destination of an id
call_save ==
    /\ Len(storage_calls) < MaxStorageCalls
    /\ \E id \in StorageIds, content \in {None, Some(""), Some("PK")},
          src \in {"/tmp/deck.pptx"} \cup {pptx_path(output_dir, i) : i \in StorageIds} :
       \E o \in {storage_save(files, output_dir, src, id, content)} :
          /\ files' = o.files
          /\ storage_calls' =
                 Append(storage_calls,
                        [op |-> "save", id |-> id, raised |-> o.raised,
                         location |-> IF o.raised THEN None
                                      ELSE Some(pptx_path(output_dir, id)),
                         deleted |-> FALSE, before |-> stored_ids(files)])
    /\ UNCHANGED gvars
    /\ UNCHANGED <<kwargs, theme, rgb, custom_content, aspect_ratio, prs,
                   document, hpc, requests, storage_backends, default_backend>>

\* storage.delete(id)
call_delete ==
    /\ Len(storage_calls) < MaxStorageCalls
    /\ \E id \in StorageIds :
       \E o \in {storage_delete(files, output_dir, id)} :
          /\ files' = o.files
          /\ storage_calls' =
                 Append(storage_calls,
                        [op |-> "delete", id |-> id, raised |-> FALSE,
                         location |-> None, deleted |-> o.returned,
                         before |-> stored_ids(files)])
    /\ UNCHANGED gvars
    /\ UNCHANGED <<kwargs, theme, rgb, custom_content, aspect_ratio, prs,
                   document, hpc, requests, storage_backends, default_backend>>

StorageNext == call_save \/ call_delete

SpecStorage == StorageInit /\ [][StorageNext]_vars

(***************************************************************************)
(* The StorageFactory and callers that register backends, set the default  *)
(* and create storages.  Every call is logged with its outcome and with    *)
(* the registry and the default before it.                                 *)
(***************************************************************************)
BackendNames == {"file_storage", "s3", "gcs", ""}

\* the log entry of a call with outcome o
factory_call(op, backend, o) ==
    [op |-> op, backend |-> backend, raised |-> o.raised, error |-> o.error,
     backends |-> storage_backends, default |-> default_backend]

\* StorageFactory.register_backend(name, storage_class)
call_register_backend ==
    /\ Len(storage_calls) < MaxFactoryCalls
    /\ \E name \in BackendNames \ {"gcs"},
          storage_class \in {"BaseStorage", "S3Storage", "dict"} :
       \E o \in {register_backend(storage_backends, name, storage_class)} :
          /\ storage_backends' = o.backends
          /\ storage_calls' = Append(storage_calls, factory_call("register", Some(name), o))
    /\ UNCHANGED gvars
    /\ UNCHANGED rvars
    /\ UNCHANGED default_backend

\* StorageFactory.set_default_backend(backend)
call_set_default_backend ==
    /\ Len(storage_calls) < MaxFactoryCalls
    /\ \E backend \in BackendNames :
       \E o \in {set_default_backend(storage_backends, default_backend, backend)} :
          /\ default_backend' = o.default
          /\ storage_calls' = Append(storage_calls, factory_call("set_default", Some(backend), o))
    /\ UNCHANGED gvars
    /\ UNCHANGED rvars
    /\ UNCHANGED storage_backends

\* StorageFactory.create(backend)
call_create ==
    /\ Len(storage_calls) < MaxFactoryCalls
    /\ \E backend \in {None} \cup {Some(n) : n \in BackendNames} :
       \E o \in {create(storage_backends, default_backend, backend)} :
          storage_calls' = Append(storage_calls, factory_call("create", backend, o))
    /\ UNCHANGED gvars
    /\ UNCHANGED rvars
    /\ UNCHANGED <<storage_backends, default_backend>>

FactoryNext == call_register_backend \/ call_set_default_backend \/ call_create

SpecFactory == StorageInit /\ [][FactoryNext]_vars

(***************************************************************************)
(* Properties.                                                             *)
(***************************************************************************)
Finished == pc \in {"returned", "raised"}
InRange(n) == min_slides <= n /\ n <= max_slides
BlankTopics == {"", "   "}
KeyConfigured == api_key \notin {None, Some("")}
RequestTopic(t) == TopicMinLength <= Len(t) /\ Len(t) <= TopicMaxLength

\* C1: once the arguments pass validation, generate_slides returns a
\* (slides, citations) result whatever the endpoint does; the only error
\* that ever leaves it is the ValueError of the validation.
C1_NeverPropagatesDownstreamError ==
    (Finished /\ topic \notin BlankTopics /\ InRange(num_slides))
        => pc = "returned"

\* C2: the synthesizer is total: for every topic of 3 to 500 characters
\* and every slide count of the configured range it returns a result.
C2_SynthesizerTotal ==
    (Finished /\ RequestTopic(topic) /\ InRange(num_slides))
        => pc = "returned"

\* C3: with a topic that is empty after trimming, or a slide count outside
\* [min_slides, max_slides], generate_slides fails with the validation
\* error, and neither a request to the endpoint nor a synthesis has
\* happened.
C3_ValidationBeforeAnyCall ==
    (pc # "start" /\ (topic \in BlankTopics \/ ~InRange(num_slides)))
        => /\ pc = "raised"
           /\ error = "ValueError"
           /\ post_calls = 0
           /\ fallback_calls = 0

C3_Witness ==
    /\ pc = "raised"
    /\ error = "ValueError"
    /\ num_slides = max_slides + 1
    /\ topic = "Cat"
    /\ KeyConfigured
    /\ post_calls = 0

NonSuccess == ~response.raised /\ response.status_code # 0 /\ response.status_code # HTTP_OK

TextReceived ==
    ~response.raised /\ response.status_code = HTTP_OK /\ response.envelope \in TextEnvelopes

Min(a, b) == IF a < b THEN a ELSE b

\* what the endpoint wrote, independently of the parser
InvalidSlideLetters == {"x"}
ProsePrefixes == {"Here you go: "}
ProseSuffixes == {" Enjoy!"}
\* the text is not one well-formed block with brace-free text around it
Unparsable == reply.damage # "none" \/ reply.pre = "{" \/ reply.post = " }"
InvalidSlideAmong(k) ==
    \E j \in 1..Min(k, Len(reply.payload.slides)) :
        reply.payload.slides[j] \in InvalidSlideLetters
SynthesizedForParseFailure ==
    LET f == generate_fallback_content("Generated Content", num_slides, FALSE)
    IN  pc = "returned" /\ slides = f.slides /\ citations = None

\* C5 as stated: when the text cannot be parsed or any slide in it fails
\* schema validation, the result is the synthesizer's output for
\* ("Generated Content", slide_count, false), so citations is None.
C5_AnyInvalidSlideFallsBack ==
    (Finished /\ TextReceived
       /\ (Unparsable \/ InvalidSlideAmong(Len(reply.payload.slides))))
        => SynthesizedForParseFailure

\* C5 amended: when the text cannot be parsed or any of the first
\* slide_count slides in it fails schema validation, the result is the
\* synthesizer's output for ("Generated Content", slide_count, false): the
\* caller's topic and include_citations=true are dropped and citations is
\* None.
C5_InvalidKeptSlideFallsBack ==
    (Finished /\ TextReceived /\ (Unparsable \/ InvalidSlideAmong(num_slides)))
        => SynthesizedForParseFailure

C5_Witness ==
    /\ pc = "returned"
    /\ TextReceived
    /\ ~Unparsable
    /\ InvalidSlideAmong(num_slides)
    /\ include_citations
    /\ topic = "Cat"
    /\ citations = None
    /\ slides[1].title = "Generated Content"

\* C7: one generate_slides call issues at most one request to the
\* endpoint: exactly one once validation has passed with a credential
\* configured, none otherwise, and none is added after a failed request.
C7_AtMostOneRequest ==
    /\ post_calls <= 1
    /\ pc # "start" =>
          post_calls = IF /\ KeyConfigured
                          /\ topic \notin BlankTopics
                          /\ InRange(num_slides)
                       THEN 1 ELSE 0

C7_Witness ==
    /\ pc = "returned"
    /\ response.raised
    /\ post_calls = 1
    /\ fallback_calls = 1

\* C8: on a successful parse the returned slides are the first
\* min(slide_count, n) entries of the payload's n slides in payload order,
\* and citations are the payload's citations when that list is non-empty,
\* None otherwise.
C8_ParsedIsTruncatedPayload ==
    (pc = "returned" /\ path = "parsed")
        => /\ Len(slides) = Min(num_slides, Len(reply.payload.slides))
           /\ Len(slides) <= num_slides
           /\ \A k \in 1..Len(slides) : slides[k] = slide_data(reply.payload.slides[k])
           /\ IF reply.payload.has_citations /\ reply.payload.citations # <<>>
              THEN /\ citations # None
                   /\ Len(citations[1]) = Len(reply.payload.citations)
                   /\ \A k \in 1..Len(citations[1]) :
                         citations[1][k] = citation_data(reply.payload.citations[k])
              ELSE citations = None

C8_Witness ==
    /\ pc = "returned"
    /\ path = "parsed"
    /\ Len(reply.payload.slides) > num_slides
    /\ Len(slides) = num_slides
    /\ citations # None

PayloadSlides == {slide_data(ch) : ch \in SlideLetters}

\* C9: parsing is atomic: the returned list is either the whole kept part
\* of the payload or holds no payload slide at all, and when the text is
\* unparsable or one of the first slide_count entries is invalid it holds
\* none of the slides parsed before the failure.
C9_ParseAtomic ==
    (Finished /\ TextReceived)
        => /\ pc = "returned"
           /\ \/ /\ Len(slides) = Min(num_slides, Len(reply.payload.slides))
                 /\ \A k \in 1..Len(slides) :
                       slides[k] = slide_data(reply.payload.slides[k])
              \/ \A k \in 1..Len(slides) : slides[k] \notin PayloadSlides
           /\ (Unparsable \/ InvalidSlideAmong(num_slides))
                 => /\ Len(slides) = num_slides
                    /\ \A k \in 1..Len(slides) : slides[k] \notin PayloadSlides

C9_Witness ==
    /\ pc = "returned"
    /\ TextReceived
    /\ ~Unparsable
    /\ reply.payload.slides = <<"t", "x">>
    /\ num_slides = 2
    /\ Len(slides) = 2
    /\ slides[1] # slide_data("t")

\* C10: a text made of one {...} block with brace-free prose before and
\* after it parses to the same slides and citations as the bare block.
C10_ProseAroundBlockIgnored ==
    (Finished /\ TextReceived /\ reply.damage = "none"
       /\ reply.pre \in ProsePrefixes /\ reply.post \in ProseSuffixes)
        => LET bare == parse_llm_response(json_dumps(reply.payload), num_slides)
           IN  /\ pc = "returned"
               /\ slides = bare.slides
               /\ citations = bare.citations

C10_Witness ==
    /\ pc = "returned"
    /\ path = "parsed"
    /\ reply.pre \in ProsePrefixes
    /\ reply.post \in ProseSuffixes
    /\ Len(slides) = 2
    /\ citations # None

\* C6: for every slide count of the configured range the synthesizer
\* returns exactly slide_count slides, the first a Title slide titled with
\* the topic, and every BulletPoints slide carries exactly 4 bullet points.
C6_SynthesizerShape ==
    (Finished /\ InRange(num_slides))
        => /\ pc = "returned"
           /\ Len(slides) = num_slides
           /\ slides[1].layout = TITLE
           /\ slides[1].title = topic
           /\ \A k \in 1..Len(slides) :
                 slides[k].layout = BULLET_POINTS
                     => /\ slides[k].bullet_points # None
                        /\ Len(slides[k].bullet_points[1]) = 4

\* '#' followed by exactly six hexadecimal digits
IsHexColor(c) ==
    /\ Len(c) = 7
    /\ Char(c, 1) = "#"
    /\ \A i \in 2..7 : Char(c, i) \in HexChars

\* a colour argument that is a string other than '#' and six hex digits
MalformedArg(arg) == arg.given /\ arg.value # None /\ ~IsHexColor(arg.value[1])

\* C11: ThemeConfig construction fails for every primary_color or
\* secondary_color string that is not '#' followed by exactly six
\* hexadecimal digits.
C11_MalformedColorRejected ==
    (pc # "start" /\ (MalformedArg(kwargs.primary_color)
                         \/ MalformedArg(kwargs.secondary_color)))
        => pc = "raised"

LowerOf(c) ==
    IF c = "A" THEN "a" ELSE IF c = "B" THEN "b" ELSE IF c = "C" THEN "c"
    ELSE IF c = "D" THEN "d" ELSE IF c = "E" THEN "e" ELSE IF c = "F" THEN "f"
    ELSE c

Lower6(c) == LowerOf(Char(c, 2)) \o LowerOf(Char(c, 3)) \o LowerOf(Char(c, 4))
                 \o LowerOf(Char(c, 5)) \o LowerOf(Char(c, 6)) \o LowerOf(Char(c, 7))

LowerDigits == <<"0", "1", "2", "3", "4", "5", "6", "7", "8", "9",
                 "a", "b", "c", "d", "e", "f">>

\* a component of 0..255 written as two hexadecimal digits
Format2(n) == LowerDigits[(n \div 16) + 1] \o LowerDigits[(n % 16) + 1]

\* C12: for every '#RRGGBB' with six hexadecimal digits the conversion
\* returns a triple of components in 0..255 which, written back as three
\* two-digit hexadecimal numbers, gives the same six digits up to case.
C12_HexRoundTrip ==
    (pc \in {"converted", "convert_raised"} /\ theme.primary_color # None
       /\ IsHexColor(theme.primary_color[1]))
        => /\ pc = "converted"
           /\ Len(rgb) = 3
           /\ \A k \in 1..3 : rgb[k] \in 0..255
           /\ Format2(rgb[1]) \o Format2(rgb[2]) \o Format2(rgb[3])
                 = Lower6(theme.primary_color[1])

C12_Witness ==
    /\ pc = "converted"
    /\ kwargs.primary_color = Given("#1Fc788")
    /\ rgb = <<31, 199, 136>>

\* the other fields of the keyword arguments are valid
OtherFieldsValid ==
    /\ required(kwargs.layout)
    /\ kwargs.layout.value[1] \in SlideLayout
    /\ required(kwargs.title)
    /\ Len(kwargs.title.value[1]) \in TitleMinLength..TitleMaxLength

\* bullet_points is a non-null list of 3 to 5 strings
ThreeToFive(arg) ==
    arg.given /\ arg.value # None /\ Len(arg.value[1]) \in 3..5

\* C13: a SlideContent with layout BulletPoints is accepted only if
\* bullet_points is a non-null list of 3 to 5 strings (omitted, null,
\* empty, shorter and longer all fail); for the other layouts any
\* bullet_points value is accepted.
C13_BulletPointsRequired ==
    (pc # "start" /\ OtherFieldsValid)
        => IF kwargs.layout.value[1] = BULLET_POINTS
           THEN (pc = "constructed") <=> ThreeToFive(kwargs.bullet_points)
           ELSE pc = "constructed"

\* the keyword arguments are those of a TwoColumn slide with a column
\* that is null after construction
NullColumn ==
    /\ required(kwargs.layout)
    /\ kwargs.layout.value[1] = TWO_COLUMN
    /\ required(kwargs.title)
    /\ Len(kwargs.title.value[1]) \in TitleMinLength..TitleMaxLength
    /\ \/ field(kwargs.left_column, None) = None
       \/ field(kwargs.right_column, None) = None

\* C14: a TwoColumn slide whose left_column or right_column is null is
\* rejected when the SlideContent is constructed: it never reaches the
\* renderer, and no page is rendered from it with an empty string in
\* place of the missing column.
C14_NullColumnRejected ==
    (pc # "start" /\ NullColumn)
        => /\ pc = "raised"
           /\ slides = <<>>
           /\ prs = None

AllValidated == \A i \in 1..Len(slides) : slides[i].layout \in SlideLayout
HasCitations == citations # None /\ citations[1] # <<>>

\* C15: the document create_presentation returns for validated slides has
\* one page for each slide, the i-th from the i-th slide, then exactly one
\* References page when citations is a non-empty list and no other page
\* when citations is None or empty.
C15_OnePagePerSlide ==
    (document # None /\ AllValidated)
        => /\ Len(document[1].pages) = Len(slides) + (IF HasCitations THEN 1 ELSE 0)
           /\ \A i \in 1..Len(slides) :
                 /\ document[1].pages[i].kind = slides[i].layout
                 /\ document[1].pages[i].title = slides[i].title
                 /\ document[1].pages[i].complete
           /\ \A k \in 1..Len(document[1].pages) :
                 (document[1].pages[k].kind = "references")
                     <=> (HasCitations /\ k = Len(slides) + 1)

C15_Witness ==
    /\ document # None
    /\ Len(slides) = 3
    /\ slides[1].layout = TITLE
    /\ slides[2].layout = TWO_COLUMN
    /\ slides[3].layout = BULLET_POINTS
    /\ citations = Some(fallback_citations("Cat"))
    /\ Len(document[1].pages) = 4
    /\ document[1].pages[4].boxes[1]
           = "Academic Research Database - Comprehensive Study on Cat (2024)"

\* C16: when a step of create_presentation fails, no document is
\* returned, the generator retains no document for save_presentation to
\* write, and no file is written from a failed render.
C16_RenderAtomic ==
    /\ hpc = "render_failed" => (document = None /\ prs = None)
    /\ files # {} => document # None

\* C17: a slide whose layout is none of the four reaching the renderer
\* aborts the render with an error: no document is returned for a slide
\* list that holds one.
C17_UnknownLayoutAborts ==
    (hpc \notin {"created", "save_failed"} /\ ~AllValidated)
        => /\ document = None
           /\ error # ""

HandlerFinished == hpc \in {"done", "failed"}

\* C18: when a request supplies custom slides, the empty list included,
\* the handler makes no call to the content acquisition service, renders
\* exactly the supplied slides in order, and uses citations=None whatever
\* include_citations is.
C18_CustomBypassesAcquisition ==
    (HandlerFinished /\ custom_content # None)
        => /\ pc = "idle"
           /\ post_calls = 0
           /\ fallback_calls = 0
           /\ slides = custom_content[1]
           /\ citations = None
           /\ document # None
                 => /\ Len(document[1].pages) = Len(custom_content[1])
                    /\ \A i \in 1..Len(custom_content[1]) :
                          /\ document[1].pages[i].kind = custom_content[1][i].layout
                          /\ document[1].pages[i].title = custom_content[1][i].title

\* what generate_slides gives a request run alone, from the request's own
\* arguments and the response its own client.post produced
AloneSlides(fr) ==
    IF fr.response = NoResponse
    THEN generate_fallback_content(fr.topic, fr.num_slides, fr.include_citations)
    ELSE generate_with_llm(fr.response, fr.topic, fr.num_slides, fr.include_citations)

\* the document the request run alone builds from them
AloneDocument(acq) ==
    create_presentation(DefaultTheme, acq.slides, acq.citations, "16:9").prs

EndedAsAlone(fr, acq) ==
    /\ ~acq.raised
    /\ fr.slides = acq.slides
    /\ fr.citations = acq.citations
    /\ fr.document = Some(AloneDocument(acq))
    /\ file_exists(files, pptx_path(output_dir, fr.presentation_id))
    /\ read_file(files, pptx_path(output_dir, fr.presentation_id)) = AloneDocument(acq)

\* C19: requests interleaved at the await of the endpoint call are
\* independent: the slides, the citations and the document of every
\* request that has ended are those the same request, with the same
\* response of the endpoint, gives when it runs alone, and the file written
\* for it holds that document.
C19_RequestsIndependent ==
    \A r \in Requests :
        requests[r].hpc \in {"done", "failed"}
            => EndedAsAlone(requests[r], AloneSlides(requests[r]))

C19_Witness ==
    /\ requests[1].hpc = "failed"
    /\ requests[2].hpc = "awaiting"
    /\ requests[1].topic = "Cat"
    /\ requests[2].topic = "Dog"
    /\ requests[1].response.status_code = 500
    /\ Len(requests[1].slides) = 2
    /\ requests[1].slides[1].title = "Cat"
    /\ requests[1].document # None

LayoutCycle == <<BULLET_POINTS, TWO_COLUMN, CONTENT_WITH_IMAGE, BULLET_POINTS>>

\* C20: in the synthesizer's output the slide at 0-based index i >= 1 has
\* the layout LayoutCycle[(i-1) mod 4], whatever the topic and the
\* citation preference are.
C20_LayoutCycle ==
    pc = "returned"
        => \A i \in 1..(Len(slides) - 1) :
               slides[i + 1].layout = LayoutCycle[((i - 1) % 4) + 1]

C20_Witness ==
    /\ pc = "returned"
    /\ num_slides = 7
    /\ Len(slides) = 7
    /\ slides[2].layout = BULLET_POINTS
    /\ slides[3].layout = TWO_COLUMN
    /\ slides[4].layout = CONTENT_WITH_IMAGE
    /\ slides[5].layout = BULLET_POINTS
    /\ slides[6].layout = BULLET_POINTS
    /\ slides[7].layout = TWO_COLUMN

\* the citations the claim describes for a citation preference
SynthCitationsAsClaimed(cs, inc) ==
    IF inc
    THEN /\ cs # None
         /\ Len(cs[1]) = 2
         /\ cs[1][1].source = Some("Academic Research Database")
         /\ cs[1][2].source = Some("Industry Publications")
    ELSE cs = None

\* C21: for a topic a request may carry and every slide count of the
\* configured range, the synthesizer returns, with exactly two citations
\* (sources "Academic Research Database", "Industry Publications") when
\* include_citations is true and with citations None when it is false.
C21_SynthCitations ==
    (Finished /\ RequestTopic(topic) /\ InRange(num_slides))
        => /\ pc = "returned"
           /\ SynthCitationsAsClaimed(citations, include_citations)

\* a title or date that is there: neither null nor empty
Present(v) == v # None /\ v[1] # ""

\* the paragraph the claim gives a citation
ReferenceParagraph(c) ==
    IF Present(c.title) /\ Present(c.date)
    THEN c.source[1] \o " - " \o c.title[1] \o " (" \o c.date[1] \o ")"
    ELSE IF Present(c.title) THEN c.source[1] \o " - " \o c.title[1]
    ELSE IF Present(c.date) THEN c.source[1] \o " (" \o c.date[1] \o ")"
    ELSE c.source[1]

LastPage(doc) == doc.pages[Len(doc.pages)]

\* C22: when the citation list is non-empty, the last page of the document
\* create_presentation returns has the title "References" and exactly one
\* paragraph per citation in input order, each being the source, then
\* " - " and the title if there is one, then " (", the date and ")" if
\* there is one.
C22_ReferencesPage ==
    (document # None /\ HasCitations)
        => /\ LastPage(document[1]).title = "References"
           /\ Len(LastPage(document[1]).boxes) = Len(citations[1])
           /\ \A k \in 1..Len(citations[1]) :
                  LastPage(document[1]).boxes[k] = ReferenceParagraph(citations[1][k])

C22_Witness ==
    /\ document # None
    /\ citations # None
    /\ Len(citations[1]) = 2
    /\ Len(document[1].pages) = Len(slides) + 1
    /\ LastPage(document[1]).title = "References"
    /\ LastPage(document[1]).boxes = <<"CDC (2020)", "WHO - Report">>

\* the slide rendered is a BulletPoints slide with 3 to 5 bullet points
BulletSlideRendered ==
    /\ document # None
    /\ Len(slides) = 1
    /\ slides[1].layout = BULLET_POINTS
    /\ slides[1].bullet_points # None
    /\ Len(slides[1].bullet_points[1]) \in 3..5

\* C23: rendering a BulletPoints slide with k bullet points, 3 <= k <= 5,
\* produces one page with the title of the slide at the reduced title size
\* and exactly k paragraphs, the bullet points in input order.
C23_BulletParagraphs ==
    BulletSlideRendered
        => /\ Len(document[1].pages) = 1
           /\ document[1].pages[1].title = slides[1].title
           /\ document[1].pages[1].title_size = theme.font_size_title[1] - 8
           /\ Len(document[1].pages[1].boxes) = Len(slides[1].bullet_points[1])
           /\ \A k \in 1..Len(slides[1].bullet_points[1]) :
                  document[1].pages[1].boxes[k] = slides[1].bullet_points[1][k]

C23_Witness ==
    /\ BulletSlideRendered
    /\ document[1].pages[1].boxes = <<"point 1", "point 2", "point 3", "point 4", "point 5">>

\* C24: the page is 10 x 5.625 inches for "16:9" and 10 x 7.5 inches for
\* "4:3" (914400 EMU to the inch), and a request whose aspect_ratio is any
\* other value, null included, is rejected by GenerateRequest, so that no
\* other value reaches create_presentation.
C24_PageGeometry ==
    /\ hpc \notin {"constructing", "rejected"} => aspect_ratio \in {"16:9", "4:3"}
    /\ (hpc # "constructing" /\ kwargs.aspect_ratio.given
           /\ kwargs.aspect_ratio.value \notin {Some("16:9"), Some("4:3")})
          => hpc = "rejected"
    /\ prs # None
          => /\ prs[1].width = 9144000
             /\ prs[1].height = IF aspect_ratio = "16:9" THEN 5143500 ELSE 6858000

C24_Witness ==
    /\ kwargs.aspect_ratio = Given("4:3")
    /\ aspect_ratio = "4:3"
    /\ prs # None
    /\ prs[1].height = 6858000
    /\ prs[1].pages # <<>>

\* C25: generate_slides never returns an empty slide sequence; in
\* particular, when the text of the endpoint is a JSON object without a
\* 'slides' key or with an empty 'slides' list, the caller receives at
\* least one slide.
C25_NeverEmptySlides ==
    pc = "returned" => Len(slides) >= 1

\* C26: when include_citations is false, generate_slides returns
\* citations None on every path, and the document the handler renders has
\* no References page.
C26_NoCitationsUnlessAsked ==
    ~include_citations
        => /\ pc = "returned" => citations = None
           /\ prs # None
                 => \A k \in 1..Len(prs[1].pages) : prs[1].pages[k].kind # "references"

\* C27: in the generate handler a successful render is always followed by
\* a successful store (FileStorage.save of the file already at its
\* destination output_dir/<id>.pptx succeeds) and the 201 response, never
\* by a 500.
C27_StoreAfterRender ==
    (HandlerFinished /\ document # None)
        => /\ hpc = "done"
           /\ error = ""

\* a call that succeeded: a save that returned, a delete that returned true
Succeeded(c) == IF c.op = "save" THEN ~c.raised ELSE c.deleted

\* the successful calls on id, by their positions in the log
SuccessfulOn(id) ==
    {k \in 1..Len(storage_calls) : storage_calls[k].id = id /\ Succeeded(storage_calls[k])}

\* the last successful call on id was a save
LastWasSave(id) ==
    /\ SuccessfulOn(id) # {}
    /\ storage_calls[CHOOSE k \in SuccessfulOn(id) : \A j \in SuccessfulOn(id) : j <= k].op = "save"

LastCall == storage_calls[Len(storage_calls)]

\* C28: after any sequence of save and delete calls on one FileStorage,
\* for every id exists(id) is true iff get(id) returns a location iff the
\* last successful call on that id was a save; a delete returns true
\* exactly when the id had a file and leaves it without one; a delete of an
\* absent id returns false and changes no id's presence.
C28_StorageConsistent ==
    /\ \A id \in StorageIds :
          /\ storage_exists(files, output_dir, id)
                 <=> storage_get(files, output_dir, id) = Some(pptx_path(output_dir, id))
          /\ storage_exists(files, output_dir, id) <=> LastWasSave(id)
    /\ (storage_calls # <<>> /\ LastCall.op = "delete")
          => /\ LastCall.deleted <=> LastCall.id \in LastCall.before
             /\ ~storage_exists(files, output_dir, LastCall.id)
             /\ ~LastCall.deleted => stored_ids(files) = LastCall.before

\* C30: after any sequence of register_backend, set_default_backend and
\* create calls, those that raise included, the default backend is a key
\* of the registry, no create() without a backend has failed with
\* 'Unsupported storage backend', and a register_backend or
\* set_default_backend that raised has left the registry and the default
\* as they were.
C30_DefaultRegistered ==
    /\ default_backend \in DOMAIN storage_backends
    /\ \A k \in 1..Len(storage_calls) :
          (storage_calls[k].op = "create" /\ storage_calls[k].backend = None)
              => storage_calls[k].error # "Unsupported storage backend"
    /\ (storage_calls # <<>> /\ LastCall.raised)
          => /\ storage_backends = LastCall.backends
             /\ default_backend = LastCall.default

C30_Witness ==
    /\ Len(storage_calls) = 3
    /\ storage_calls[1].op = "set_default" /\ storage_calls[1].raised
    /\ storage_calls[2].op = "register" /\ ~storage_calls[2].raised
    /\ storage_calls[3].op = "set_default" /\ ~storage_calls[3].raised
    /\ default_backend = "s3"
    /\ storage_backends["s3"] = "S3Storage"

\* C29: every colour string ThemeConfig accepts is converted by
\* _hex_to_rgb without raising, to three components of 0..255 that are
\* the values of the character pairs after the first character of the
\* accepted string.
C29_AcceptedColorConverts ==
    (pc \in {"converted", "convert_raised"} /\ theme.primary_color # None)
        => /\ pc = "converted"
           /\ Len(rgb) = 3
           /\ \A k \in 1..3 : rgb[k] \in 0..255
           /\ Len(theme.primary_color[1]) = 7
           /\ Format2(rgb[1]) \o Format2(rgb[2]) \o Format2(rgb[3])
                 = Lower6(theme.primary_color[1])

====
